---------------------------- MODULE Spec2Model ----------------------------
(***************************************************************************)
(* One invocation of a skill script of the agent toolkit (search.py,       *)
(* scene_index.py, upload.py) against the video backend.  Python strings   *)
(* that the code inspects (error messages, index statuses, URLs, type      *)
(* names) are sequences of one-character strings, so that lower(), the     *)
(* `in` substring test and the regular expression are computed, not        *)
(* assumed.                                                                *)
(***************************************************************************)
EXTENDS Integers, Sequences, FiniteSets

\* ------------------------------------------------------------------------
\* Bounds of the model
\* ------------------------------------------------------------------------
\* longest collection the backend holds when the invocation starts
MaxVideos == 2
\* most shots one backend search call returns
MaxShots == 1
\* invocations that resolve the same URL against one collection
NumInvocations == 2

\* ------------------------------------------------------------------------
\* Program constants
\* ------------------------------------------------------------------------
\* for _ in range(30)
PollIterations == 30
\* time.sleep(10)
SleepUnits == 10

\* ------------------------------------------------------------------------
\* Python string primitives
\* ------------------------------------------------------------------------
UpperChars ==
    <<"A","B","C","D","E","F","G","H","I","J","K","L","M",
      "N","O","P","Q","R","S","T","U","V","W","X","Y","Z">>
LowerChars ==
    <<"a","b","c","d","e","f","g","h","i","j","k","l","m",
      "n","o","p","q","r","s","t","u","v","w","x","y","z">>
DigitChars ==
    <<"0","1","2","3","4","5","6","7","8","9">>

InSeq(c, s) == \E i \in 1..Len(s) : s[i] = c

\* str.lower() on one character
LowerChar(c) ==
    IF InSeq(c, UpperChars)
    THEN LowerChars[CHOOSE i \in 1..Len(UpperChars) : UpperChars[i] = c]
    ELSE c

\* str.lower()
Lower(s) == [i \in 1..Len(s) |-> LowerChar(s[i])]

\* Python's `sub in s` on strings
Contains(s, sub) ==
    \E i \in 0..(Len(s) - Len(sub)) : SubSeq(s, i + 1, i + Len(sub)) = sub

\* the regular expression class [\w-]
IsWordChar(c) ==
    InSeq(c, UpperChars) \/ InSeq(c, LowerChars) \/ InSeq(c, DigitChars)
        \/ c = "_" \/ c = "-"

\* ------------------------------------------------------------------------
\* extract_youtube_id
\* ------------------------------------------------------------------------
\* "youtube.com/watch?v="
PatWatch ==
    <<"y","o","u","t","u","b","e",".","c","o","m","/","w","a","t","c","h","?","v","=">>
\* "youtu.be/"
PatShort ==
    <<"y","o","u","t","u",".","b","e","/">>
\* "youtube.com/embed/"
PatEmbed ==
    <<"y","o","u","t","u","b","e",".","c","o","m","/","e","m","b","e","d","/">>
UrlPatterns == <<PatWatch, PatShort, PatEmbed>>

\* the value None of a token: the group [\w-]+ is never empty
NoToken == <<>>

\* the alternative p matches at position i and one character of [\w-] follows
PrefixAt(url, i, p) ==
    /\ i + Len(p) <= Len(url)
    /\ SubSeq(url, i, i + Len(p) - 1) = p
    /\ IsWordChar(url[i + Len(p)])

MatchAt(url, i) == \E k \in 1..Len(UrlPatterns) : PrefixAt(url, i, UrlPatterns[k])

\* the greedy group ([\w-]+) that starts at position j
GroupFrom(url, j) ==
    LET last == CHOOSE e \in j..Len(url) :
                    /\ \A x \in j..e : IsWordChar(url[x])
                    /\ (e = Len(url) \/ ~IsWordChar(url[e + 1]))
    IN  SubSeq(url, j, last)

\* a variant of extract_youtube_id: a URL of no known shape is its own token
extract_youtube_id_WholeUrl(url) ==
    IF \E i \in 1..Len(url) : MatchAt(url, i)
    THEN LET i == CHOOSE a \in 1..Len(url) :
                      MatchAt(url, a) /\ \A b \in 1..(a - 1) : ~MatchAt(url, b)
             k == CHOOSE a \in 1..Len(UrlPatterns) :
                      /\ PrefixAt(url, i, UrlPatterns[a])
                      /\ \A b \in 1..(a - 1) : ~PrefixAt(url, i, UrlPatterns[b])
         IN  GroupFrom(url, i + Len(UrlPatterns[k]))
    ELSE url

\* re.search: the leftmost match, its alternatives tried in order
extract_youtube_id(url) ==
    IF \E i \in 1..Len(url) : MatchAt(url, i)
    THEN LET i == CHOOSE a \in 1..Len(url) :
                      MatchAt(url, a) /\ \A b \in 1..(a - 1) : ~MatchAt(url, b)
             k == CHOOSE a \in 1..Len(UrlPatterns) :
                      /\ PrefixAt(url, i, UrlPatterns[a])
                      /\ \A b \in 1..(a - 1) : ~PrefixAt(url, i, UrlPatterns[b])
         IN  GroupFrom(url, i + Len(UrlPatterns[k]))
    ELSE NoToken

\* ------------------------------------------------------------------------
\* Substrings the code looks for
\* ------------------------------------------------------------------------
\* "not indexed"
SubNotIndexed ==
    <<"n","o","t"," ","i","n","d","e","x","e","d">>
\* "index"
SubIndex ==
    <<"i","n","d","e","x">>
\* "no scene"
SubNoScene ==
    <<"n","o"," ","s","c","e","n","e">>
\* "no results"
SubNoResults ==
    <<"n","o"," ","r","e","s","u","l","t","s">>
\* "already"
SubAlready ==
    <<"a","l","r","e","a","d","y">>
\* "processing"
SubProcessing ==
    <<"p","r","o","c","e","s","s","i","n","g">>
\* "does not exist"
SubDoesNotExist ==
    <<"d","o","e","s"," ","n","o","t"," ","e","x","i","s","t">>
\* "generate transcript"
SubGenerateTranscript ==
    <<"g","e","n","e","r","a","t","e"," ","t","r","a","n","s","c","r","i","p","t">>
\* "no transcript"
SubNoTranscript ==
    <<"n","o"," ","t","r","a","n","s","c","r","i","p","t">>
\* "not found"
SubNotFound ==
    <<"n","o","t"," ","f","o","u","n","d">>
\* "done"
SubDone ==
    <<"d","o","n","e">>
\* "ready"
SubReady ==
    <<"r","e","a","d","y">>

\* search.py: the first attempt's failure leads to ensure_indexed and a retry
NeedsIndexSearch(m) ==
    Contains(Lower(m), SubNotIndexed) \/ Contains(Lower(m), SubIndex)

\* a variant of NeedsIndexScene: the "no scene" test is dropped
NeedsIndexScene_NoScene(m) ==
    \/ Contains(Lower(m), SubNotIndexed)
    \/ Contains(Lower(m), SubNoResults)

\* scene_index.py: the first attempt's failure leads to ensure_scene_index
NeedsIndexScene(m) ==
    \/ Contains(Lower(m), SubNotIndexed)
    \/ Contains(Lower(m), SubNoScene)
    \/ Contains(Lower(m), SubNoResults)

\* first attempt in either skill
NeedsIndex(sk, m) ==
    IF sk = "search" THEN NeedsIndexSearch(m) ELSE NeedsIndexScene(m)

\* a variant of IgnoredCreateError: no failure of the create-index call is ignored
IgnoredCreateError_None(m) == FALSE

\* ensure_indexed: `if "already" not in str(e).lower(): raise`
IgnoredCreateError(m) == Contains(Lower(m), SubAlready)

\* get_ready_index: one index descriptor's status counts as ready
IsReadyStatus(st) ==
    Contains(Lower(st), SubDone) \/ Contains(Lower(st), SubReady)

\* get_ready_index: the loop over the listed indexes
AnyReady(ix) == \E i \in 1..Len(ix) : IsReadyStatus(ix[i])

\* the outer `except Exception` of search_videodb
SearchCatch(m) ==
    IF Contains(Lower(m), SubNotIndexed) THEN "NOT_INDEXED" ELSE "SEARCH_ERROR"

\* the outer `except Exception` of scene_index
SceneCatch(m) ==
    IF Contains(Lower(m), SubNotIndexed) \/ Contains(Lower(m), SubNoScene)
    THEN "NOT_INDEXED"
    ELSE IF Contains(Lower(m), SubProcessing)
         THEN "PROCESSING"
         ELSE "SCENE_INDEX_ERROR"

\* the outer `except Exception` of upload_video
UploadCatch(m) == "UPLOAD_ERROR"

\* the outer `except Exception` of get_transcript
TranscriptCatch(m) ==
    IF Contains(Lower(m), SubNoTranscript) \/ Contains(Lower(m), SubNotFound)
    THEN "NO_TRANSCRIPT"
    ELSE IF Contains(Lower(m), SubProcessing)
         THEN "PROCESSING"
         ELSE "TRANSCRIPT_ERROR"

\* ensure_transcript: the failure after which the transcript is generated
NeedsTranscript(m) ==
    \/ Contains(Lower(m), SubDoesNotExist)
    \/ Contains(Lower(m), SubGenerateTranscript)

CatchCode(sk, m) ==
    IF sk = "search" THEN SearchCatch(m)
    ELSE IF sk = "scene" THEN SceneCatch(m)
    ELSE IF sk = "transcript" THEN TranscriptCatch(m)
    ELSE UploadCatch(m)

\* ------------------------------------------------------------------------
\* What the backend can say
\* ------------------------------------------------------------------------
\* "Video Not Indexed"
MsgNotIndexed ==
    <<"V","i","d","e","o"," ","N","o","t"," ","I","n","d","e","x","e","d">>
\* "no scene index"
MsgNoScene ==
    <<"n","o"," ","s","c","e","n","e"," ","i","n","d","e","x">>
\* "No results found"
MsgNoResults ==
    <<"N","o"," ","r","e","s","u","l","t","s"," ","f","o","u","n","d">>
\* "invalid index id"
MsgBadIndex ==
    <<"i","n","v","a","l","i","d"," ","i","n","d","e","x"," ","i","d">>
\* "still processing"
MsgProcessing ==
    <<"s","t","i","l","l"," ","p","r","o","c","e","s","s","i","n","g">>
\* "Already exists"
MsgAlready ==
    <<"A","l","r","e","a","d","y"," ","e","x","i","s","t","s">>

\* "Transcript does not exist"
MsgNoTranscript ==
    <<"T","r","a","n","s","c","r","i","p","t"," ","d","o","e","s"," ","n","o","t"," ","e","x","i","s","t">>
\* "Video not found"
MsgNotFound ==
    <<"V","i","d","e","o"," ","n","o","t"," ","f","o","u","n","d">>

\* the messages a failing backend call may carry
Msgs ==
    {MsgNotIndexed, MsgNoScene, MsgNoResults, MsgBadIndex, MsgProcessing,
     MsgAlready, MsgNoTranscript, MsgNotFound}

\* "No results - may need indexing"
MsgNoResultsLocal ==
    <<"N","o"," ","r","e","s","u","l","t","s"," ","-"," ","m","a","y"," ","n","e","e","d"," ","i","n","d","e","x","i","n","g">>

\* index statuses the backend reports
\* "done"
StDone ==
    <<"d","o","n","e">>
\* "READY"
StReady ==
    <<"R","E","A","D","Y">>
\* "processing"
StProcessing ==
    <<"p","r","o","c","e","s","s","i","n","g">>
\* "failed"
StFailed ==
    <<"f","a","i","l","e","d">>

\* the index lists (of the requested kind) a video of the collection may have
IndexLists == {<<>>, <<StProcessing>>, <<StFailed, StReady>>}

\* ------------------------------------------------------------------------
\* JSON values of the input object
\* ------------------------------------------------------------------------
Absent == [t |-> "absent", v |-> <<>>]
Null == [t |-> "null", v |-> <<>>]
Num == [t |-> "num", v |-> <<>>]
Str(s) == [t |-> "str", v |-> s]

\* a variant of Truthy: a key that is present counts as supplied
Truthy_Present(x) == x.t # "absent"

\* Python truth of a bound parameter (the number of the model is not 0)
Truthy(x) == (x.t = "str" /\ x.v # <<>>) \/ x.t = "num"

\* a parameter takes its default when the key is absent
Bind(x, default) == IF x.t = "absent" THEN default ELSE x

\* "semantic"
StrSemantic ==
    <<"s","e","m","a","n","t","i","c">>
\* "keyword"
StrKeyword ==
    <<"k","e","y","w","o","r","d">>
\* "spoken_word"
StrSpokenWord ==
    <<"s","p","o","k","e","n","_","w","o","r","d">>
\* "scene"
StrScene ==
    <<"s","c","e","n","e">>
\* "video"
StrVideo ==
    <<"v","i","d","e","o">>
\* "collection"
StrCollection ==
    <<"c","o","l","l","e","c","t","i","o","n">>
\* "search"
StrSearch ==
    <<"s","e","a","r","c","h">>
\* "create"
StrCreate ==
    <<"c","r","e","a","t","e">>
\* "list"
StrList ==
    <<"l","i","s","t">>
\* "timestamped"
StrTimestamped ==
    <<"t","i","m","e","s","t","a","m","p","e","d">>
\* "text"
StrText ==
    <<"t","e","x","t">>
\* "both"
StrBoth ==
    <<"b","o","t","h">>
\* "info"
StrInfo ==
    <<"i","n","f","o">>
\* "upload"
StrUpload ==
    <<"u","p","l","o","a","d">>
\* "Keyword"
ValKeyword ==
    <<"K","e","y","w","o","r","d">>
\* "Scene"
ValScene ==
    <<"S","c","e","n","e">>
\* "fuzzy"
ValBogus ==
    <<"f","u","z","z","y">>
\* "car"
ValQuery ==
    <<"c","a","r">>
\* "a.mp4"
ValFile ==
    <<"a",".","m","p","4">>
\* "https://youtu.be/ab"
UrlShort ==
    <<"h","t","t","p","s",":","/","/","y","o","u","t","u",".","b","e","/","a","b">>
\* "http://youtube.com/watch?v=cd&t=1"
UrlWatch ==
    <<"h","t","t","p",":","/","/","y","o","u","t","u","b","e",".","c","o","m","/","w","a","t","c","h","?","v","=","c","d","&","t","=","1">>
\* "https://example.com/v.mp4"
UrlPlain ==
    <<"h","t","t","p","s",":","/","/","e","x","a","m","p","l","e",".","c","o","m","/","v",".","m","p","4">>

\* the id of the i-th video of the collection: "v1", "v2", ...
IdOf(i) == <<"v", DigitChars[i + 1]>>

\* ------------------------------------------------------------------------
\* The backend's collection
\* ------------------------------------------------------------------------
\* name "talk", source "youtu.be/ab"
VideoAb ==
    [name |-> <<"t","a","l","k">>,
     source |-> <<"y","o","u","t","u",".","b","e","/","a","b">>]
\* name "abcd", no source attribute (getattr's default '')
VideoAbcd ==
    [name |-> <<"a","b","c","d">>, source |-> <<>>]
StoredVideos == {VideoAb, VideoAbcd}

\* get_video_from_url: str(getattr(v, 'name', '')) + str(getattr(v, 'source', ''))
VStr(v) == v.name \o v.source

\* what the backend stores for a video uploaded from a URL
Uploaded(url) == [name |-> <<>>, source |-> url]

Collections ==
    UNION {[1..n -> StoredVideos] : n \in 0..MaxVideos}

\* ------------------------------------------------------------------------
\* The inputs
\* ------------------------------------------------------------------------
NoArgs ==
    [query |-> Absent, video_id |-> Absent, url |-> Absent, scope |-> Absent,
     search_type |-> Absent, index_type |-> Absent, action |-> Absent,
     file |-> Absent, format |-> Absent]

\* (video_id, url) of a request
Refs ==
    {<<Absent, Absent>>, <<Null, Str(<<>>)>>,
     <<Str(IdOf(1)), Absent>>, <<Str(IdOf(MaxVideos)), Absent>>,
     <<Absent, Str(UrlShort)>>, <<Absent, Str(UrlWatch)>>,
     <<Str(IdOf(1)), Str(UrlPlain)>>}

\* (search_type, index_type) of a search request
TypePairs ==
    {<<Absent, Absent>>, <<Str(ValKeyword), Str(ValScene)>>,
     <<Str(ValBogus), Absent>>, <<Absent, Str(ValBogus)>>,
     <<Num, Absent>>, <<Absent, Num>>}

SearchInputs ==
    {[NoArgs EXCEPT !.query = q, !.video_id = r[1], !.url = r[2], !.scope = s,
                    !.search_type = tp[1], !.index_type = tp[2], !.action = x] :
        q \in {Absent, Str(ValQuery)}, r \in Refs,
        s \in {Absent, Str(StrCollection)}, tp \in TypePairs,
        x \in {Absent, Str(StrSearch)}}

SceneInputs ==
    {[NoArgs EXCEPT !.query = q, !.video_id = r[1], !.url = r[2], !.action = a,
                    !.scope = x] :
        q \in {Absent, Str(ValQuery)}, r \in Refs,
        a \in {Absent, Str(StrCreate), Str(StrList), Str(ValBogus)},
        x \in {Absent, Str(StrVideo)}}

UploadInputs ==
    {[NoArgs EXCEPT !.url = u, !.file = f, !.action = a, !.video_id = i,
                    !.query = x] :
        u \in {Absent, Str(UrlShort)}, f \in {Absent, Str(ValFile)},
        a \in {Absent, Str(StrList), Str(StrInfo)},
        i \in {Absent, Str(IdOf(1)), Str(IdOf(MaxVideos))},
        x \in {Absent, Str(ValQuery)}}

TranscriptInputs ==
    {[NoArgs EXCEPT !.video_id = r[1], !.url = r[2], !.format = f, !.query = x] :
        r \in Refs,
        f \in {Absent, Str(StrText), Str(StrBoth), Str(ValBogus)},
        x \in {Absent, Str(ValQuery)}}

Inputs(sk) ==
    IF sk = "search" THEN SearchInputs
    ELSE IF sk = "scene" THEN SceneInputs
    ELSE IF sk = "transcript" THEN TranscriptInputs
    ELSE UploadInputs

Skills == {"search", "scene", "upload", "transcript"}

\* ------------------------------------------------------------------------
\* Result dictionaries
\* ------------------------------------------------------------------------
NoResult == [success |-> FALSE, error |-> "", total |-> -1, compiled |-> "absent"]
Fail(code) == [success |-> FALSE, error |-> code, total |-> -1, compiled |-> "absent"]
Ok == [success |-> TRUE, error |-> "", total |-> -1, compiled |-> "absent"]
OkShots(n, url) == [success |-> TRUE, error |-> "", total |-> n, compiled |-> url]

\* a variant of ExitCode: the exit code no longer follows result["success"]
ExitCode_Zero(r) == 0

\* sys.exit(0 if result["success"] else 1)
ExitCode(r) == IF r.success THEN 0 ELSE 1

\* ------------------------------------------------------------------------
\* main and the checks made before the backend is touched
\* ------------------------------------------------------------------------
\* where control goes next, and the dictionary returned or printed on the way
Goto(to) == [to |-> to, res |-> NoResult]
Return(r) == [to |-> "return", res |-> r]
Step(to, code) == [to |-> to, res |-> IF to \in {"exited", "return"} THEN Fail(code) ELSE NoResult]

\* keys of the JSON object that are no parameter of the skill's function
Foreign(sk) ==
    IF sk = "search" THEN {"action", "file", "format"}
    ELSE IF sk = "scene" THEN {"scope", "search_type", "index_type", "file", "format"}
    ELSE IF sk = "transcript"
    THEN {"query", "scope", "search_type", "index_type", "action", "file"}
    ELSE {"query", "scope", "search_type", "index_type", "format"}

\* f(**args) raises TypeError on an unexpected keyword
UnexpectedKeyword(sk, a) == \E k \in Foreign(sk) : a[k].t # "absent"

\* search_type_map.get(search_type.lower())
SearchTypeOf(x) ==
    IF Lower(x.v) = StrSemantic THEN "semantic"
    ELSE IF Lower(x.v) = StrKeyword THEN "keyword"
    ELSE "None"

\* index_type_map.get(index_type.lower())
IndexTypeOf(x) ==
    IF Lower(x.v) = StrSpokenWord THEN "spoken_word"
    ELSE IF Lower(x.v) = StrScene THEN "scene"
    ELSE "None"

\* search.py: main down to search_videodb's `try`
SearchMain(rw, ev, a) ==
    LET scope == Bind(a.scope, Str(StrVideo))
        stype == Bind(a.search_type, Str(StrSemantic))
        itype == Bind(a.index_type, Str(StrSpokenWord))
    IN  IF rw = "argv_bad" THEN Step("exited", "INVALID_JSON")
        ELSE IF rw = "stdin_bad" THEN Step("exited", "NO_INPUT")
        ELSE IF a.query.t = "absent" THEN Step("exited", "MISSING_QUERY")
        ELSE IF UnexpectedKeyword("search", a) THEN Step("crashed", "")
        ELSE IF ~ev.sdk THEN Step("return", "MISSING_DEPENDENCY")
        ELSE IF ~ev.key THEN Step("return", "MISSING_API_KEY")
        ELSE IF scope = Str(StrVideo) /\ ~Truthy(a.video_id) /\ ~Truthy(a.url)
             THEN Step("return", "MISSING_VIDEO_ID")
        ELSE IF stype.t # "str" \/ itype.t # "str" THEN Step("crashed", "")
        ELSE IF SearchTypeOf(stype) = "None"
             THEN Step("return", "INVALID_SEARCH_TYPE")
        ELSE IF IndexTypeOf(itype) = "None"
             THEN Step("return", "INVALID_INDEX_TYPE")
        ELSE Step("connect", "")

\* scene_index.py: main down to scene_index's `try`
SceneMain(rw, ev, a) ==
    LET action == Bind(a.action, Str(StrSearch))
    IN  IF rw = "argv_bad" THEN Step("exited", "INVALID_JSON")
        ELSE IF rw = "stdin_bad" THEN Step("exited", "NO_INPUT")
        ELSE IF a.video_id.t = "absent" /\ a.url.t = "absent"
             THEN Step("exited", "MISSING_VIDEO_ID")
        ELSE IF UnexpectedKeyword("scene", a) THEN Step("crashed", "")
        ELSE IF ~ev.sdk THEN Step("return", "MISSING_DEPENDENCY")
        ELSE IF ~ev.key THEN Step("return", "MISSING_API_KEY")
        ELSE IF action \notin {Str(StrCreate), Str(StrSearch), Str(StrList)}
             THEN Step("return", "INVALID_ACTION")
        ELSE IF action = Str(StrSearch) /\ ~Truthy(a.query)
             THEN Step("return", "MISSING_QUERY")
        ELSE IF ~Truthy(a.video_id) /\ ~Truthy(a.url)
             THEN Step("return", "MISSING_VIDEO_ID")
        ELSE Step("connect", "")

\* a variant of UploadMain: the fields are checked before connect
UploadMain_ValidateFirst(rw, ev, a) ==
    IF rw = "argv_bad" THEN Step("exited", "INVALID_JSON")
    ELSE IF rw = "stdin_bad" THEN Step("exited", "NO_INPUT")
    ELSE IF UnexpectedKeyword("upload", a) THEN Step("crashed", "")
    ELSE IF ~ev.sdk THEN Step("return", "MISSING_DEPENDENCY")
    ELSE IF ~ev.key THEN Step("return", "MISSING_API_KEY")
    ELSE IF Bind(a.action, Str(StrUpload)) = Str(StrInfo) /\ ~Truthy(a.video_id)
         THEN Step("return", "MISSING_VIDEO_ID")
    ELSE IF /\ Bind(a.action, Str(StrUpload)) \notin {Str(StrInfo), Str(StrList)}
            /\ ~Truthy(a.url) /\ ~Truthy(a.file)
         THEN Step("return", "MISSING_SOURCE")
    ELSE Step("connect", "")

\* upload.py: main down to upload_video's `try`
UploadMain(rw, ev, a) ==
    IF rw = "argv_bad" THEN Step("exited", "INVALID_JSON")
    ELSE IF rw = "stdin_bad" THEN Step("exited", "NO_INPUT")
    ELSE IF UnexpectedKeyword("upload", a) THEN Step("crashed", "")
    ELSE IF ~ev.sdk THEN Step("return", "MISSING_DEPENDENCY")
    ELSE IF ~ev.key THEN Step("return", "MISSING_API_KEY")
    ELSE Step("connect", "")

\* transcript.py: main down to get_transcript's `try`
TranscriptMain(rw, ev, a) ==
    LET format == Bind(a.format, Str(StrTimestamped))
    IN  IF rw = "argv_bad" THEN Step("exited", "INVALID_JSON")
        ELSE IF rw = "stdin_bad" THEN Step("exited", "NO_INPUT")
        ELSE IF a.video_id.t = "absent" /\ a.url.t = "absent"
             THEN Step("exited", "MISSING_VIDEO_ID")
        ELSE IF UnexpectedKeyword("transcript", a) THEN Step("crashed", "")
        ELSE IF ~ev.sdk THEN Step("return", "MISSING_DEPENDENCY")
        ELSE IF ~ev.key THEN Step("return", "MISSING_API_KEY")
        ELSE IF format \notin {Str(StrTimestamped), Str(StrText), Str(StrBoth)}
             THEN Step("return", "INVALID_FORMAT")
        ELSE IF ~Truthy(a.video_id) /\ ~Truthy(a.url)
             THEN Step("return", "MISSING_VIDEO_ID")
        ELSE Step("connect", "")

MainStep(sk, rw, ev, a) ==
    IF sk = "search" THEN SearchMain(rw, ev, a)
    ELSE IF sk = "scene" THEN SceneMain(rw, ev, a)
    ELSE IF sk = "transcript" THEN TranscriptMain(rw, ev, a)
    ELSE UploadMain(rw, ev, a)

\* ------------------------------------------------------------------------
\* load_env_files
\* ------------------------------------------------------------------------
\* the candidate directories: /skills, /skills/<skill>, /skills/<skill>/scripts,
\* Path.cwd()
DirSkills == "skills_dir"
DirSkill == "skill_dir"
DirScript == "script_dir"
DirCwd == "cwd"
Dirs == {DirSkills, DirSkill, DirScript, DirCwd}

\* the list `for env_path in [...]` of each script
EnvCandidates(sk) ==
    IF sk = "search" THEN <<DirSkills, DirSkill, DirScript, DirCwd>>
    ELSE <<DirSkills, DirSkill, DirCwd>>

\* the scripts that define load_env_files
EnvSkills == {"search", "scene", "transcript"}

\* the variables a .env file may bind
EnvKeys == {"VIDEODB_API_KEY", "VIDEODB_BASE_URL"}

\* a variable that os.environ does not hold
Unset == "unset"

\* the value a variable has in the real environment
RealValue == "real"

\* the .env file of directory d binding the keys ks: each to a value of its own
EnvFile(d, ks) == [k \in EnvKeys |-> IF k \in ks THEN d ELSE Unset]

\* no .env file in the directory: env_path.exists() is False
NoFile == [k \in EnvKeys |-> "nofile"]

\* a variant of load_dotenv: the file's values replace those already bound
load_dotenv_Override(environ, file) ==
    [k \in EnvKeys |-> IF file[k] # Unset THEN file[k] ELSE environ[k]]

\* load_dotenv(env_path), override left at its default False: a key that
\* os.environ holds keeps its value
load_dotenv(environ, file) ==
    [k \in EnvKeys |-> IF environ[k] = Unset THEN file[k] ELSE environ[k]]

\* the state outside a run of load_env_files
NoConfig == [pc |-> "none", dotenv |-> FALSE, pos |-> 0, environ |-> <<>>,
             files |-> <<>>, real |-> <<>>]

\* ------------------------------------------------------------------------
\* State
\* ------------------------------------------------------------------------
VARIABLES
    skill,      \* which script runs
    raw,        \* what main finds in argv[1] / stdin
    env,        \* videodb importable, VIDEODB_API_KEY set
    args,       \* the parsed JSON object
    coll,       \* the backend's collection, in get_videos() order
    pc,         \* position of the invocation
    video,      \* position in coll of the resolved video, 0 before
    idx,        \* statuses of that video's indexes of the requested kind
    first,      \* how the first search attempt of a video ended
    second,     \* how the second search attempt of a video ended
    results,    \* number of shots of the search result in hand, -1 before
    nConnect,   \* connect() calls issued
    nSearch,    \* video.search / collection.search calls issued
    nCreate,    \* index_spoken_words / index_scenes calls issued
    nUpload,    \* collection.upload calls issued
    nCompile,   \* results.compile calls issued
    nPoll,      \* readiness checks made inside the poll loop
    nSleep,     \* time.sleep calls made
    clock,      \* time slept
    recovered,  \* an ensure-index step ran after a failed first attempt
    everReady,  \* some get_ready_index call returned True
    lastQuery,  \* how the last video.list_scene_index() of a readiness check ended
    queryOk,    \* some video.list_scene_index() of a readiness check returned
    createOk,   \* the last create-index call returned normally
    lastCreate, \* how the last create-index call ended
    result,     \* the dictionary returned by the skill function or built by main
    printed,    \* main printed result as JSON
    exitCode,   \* the process exit code, -1 while running
    inv,        \* the invocations that resolve one URL side by side
    cfg         \* load_env_files: os.environ, the .env files, the position

vars ==
    <<skill, raw, env, args, coll, pc, video, idx, first, second, results, nConnect,
      nSearch, nCreate, nUpload, nCompile, nPoll, nSleep, clock, recovered,
      everReady, lastQuery, queryOk, createOk, lastCreate, result, printed,
      exitCode, inv, cfg>>

inputVars == <<skill, raw, env, args, inv, cfg>>
pollVars == <<nPoll, nSleep, clock, everReady, lastQuery, queryOk>>
callVars == <<nConnect, nSearch, nCreate, nUpload, nCompile, createOk, lastCreate>>
attemptVars == <<first, second>>

\* one invocation before main runs
InitRun ==
    /\ pc = "start"
    /\ video = 0
    /\ idx = <<>>
    /\ first = "none"
    /\ second = "none"
    /\ results = -1
    /\ nConnect = 0 /\ nSearch = 0 /\ nCreate = 0 /\ nUpload = 0 /\ nCompile = 0
    /\ nPoll = 0 /\ nSleep = 0 /\ clock = 0
    /\ recovered = FALSE
    /\ everReady = FALSE
    /\ lastQuery = "none"
    /\ queryOk = FALSE
    /\ createOk = FALSE
    /\ lastCreate = "none"
    /\ result = NoResult
    /\ printed = FALSE
    /\ exitCode = -1

Init ==
    /\ skill \in Skills
    /\ raw \in {"argv_bad", "stdin_bad", "object"}
    /\ env \in [sdk : BOOLEAN, key : BOOLEAN]
    /\ args \in (IF raw = "object" THEN Inputs(skill) ELSE {NoArgs})
    /\ coll \in Collections
    /\ InitRun
    /\ inv = <<>>
    /\ cfg = NoConfig

\* ------------------------------------------------------------------------
\* Control decisions of the skill functions
\* ------------------------------------------------------------------------
\* after conn.get_collection()
AfterConnect(sk, a) ==
    IF sk = "search"
    THEN IF Bind(a.scope, Str(StrVideo)) = Str(StrCollection) THEN Goto("csearch")
         ELSE IF Truthy(a.url) THEN Goto("scan")
         ELSE Goto("getvideo")
    ELSE IF sk \in {"scene", "transcript"}
    THEN IF Truthy(a.url) THEN Goto("scan") ELSE Goto("getvideo")
    ELSE IF Bind(a.action, Str(StrUpload)) = Str(StrList) THEN Goto("ulist")
    ELSE IF Bind(a.action, Str(StrUpload)) = Str(StrInfo)
    THEN IF ~Truthy(a.video_id) THEN Return(Fail("MISSING_VIDEO_ID"))
         ELSE Goto("getvideo")
    ELSE IF ~Truthy(a.url) /\ ~Truthy(a.file) THEN Return(Fail("MISSING_SOURCE"))
    ELSE IF Truthy(a.url) THEN Goto("upload")
    ELSE Goto("filecheck")

\* a variant of AfterResolve: search.py does not index a URL-based video before
\* the first attempt
AfterResolve_NoPreIndex(sk, a) ==
    IF sk = "search" THEN Goto("search1")
    ELSE IF sk = "scene"
    THEN IF Bind(a.action, Str(StrSearch)) = Str(StrCreate) THEN Goto("docreate")
         ELSE IF Bind(a.action, Str(StrSearch)) = Str(StrList) THEN Goto("dolist")
         ELSE Goto("search1")
    ELSE IF sk = "transcript" THEN Goto("transcript")
    ELSE Return(Ok)

\* once the video handle is in hand
AfterResolve(sk, a) ==
    IF sk = "search"
    THEN IF Truthy(a.url) THEN Goto("preindex") ELSE Goto("search1")
    ELSE IF sk = "scene"
    THEN IF Bind(a.action, Str(StrSearch)) = Str(StrCreate) THEN Goto("docreate")
         ELSE IF Bind(a.action, Str(StrSearch)) = Str(StrList) THEN Goto("dolist")
         ELSE Goto("search1")
    ELSE IF sk = "transcript" THEN Goto("transcript")
    ELSE Return(Ok)

\* get_transcript: after ensure_transcript returned
AfterTranscript(a) ==
    IF Bind(a.format, Str(StrTimestamped)) \in {Str(StrText), Str(StrBoth)}
    THEN Goto("text")
    ELSE Return(Ok)

\* ensure_transcript: the except clause of the first video.get_transcript
TranscriptFailure(m) ==
    IF NeedsTranscript(m) THEN Goto("generate") ELSE Return(Fail(TranscriptCatch(m)))

\* a variant of FirstMatch: the scan never finds the token
FirstMatch_None(c, tok) == 0

\* a variant of FirstMatch: the scan keeps the last match, not the first
FirstMatch_Last(c, tok) ==
    IF tok # NoToken /\ \E i \in 1..Len(c) : Contains(VStr(c[i]), tok)
    THEN CHOOSE i \in 1..Len(c) :
            /\ Contains(VStr(c[i]), tok)
            /\ \A j \in (i + 1)..Len(c) : ~Contains(VStr(c[j]), tok)
    ELSE 0

\* get_video_from_url: the scan `for v in collection.get_videos()`; 0 = no match
FirstMatch(c, tok) ==
    IF tok # NoToken /\ \E i \in 1..Len(c) : Contains(VStr(c[i]), tok)
    THEN CHOOSE i \in 1..Len(c) :
            /\ Contains(VStr(c[i]), tok)
            /\ \A j \in 1..(i - 1) : ~Contains(VStr(c[j]), tok)
    ELSE 0

\* what is remembered of a backend exception of the first attempt: whether its
\* message holds one of the substrings "not indexed", "no scene", "no results"
Raised(m) ==
    IF \/ Contains(Lower(m), SubNotIndexed)
       \/ Contains(Lower(m), SubNoScene)
       \/ Contains(Lower(m), SubNoResults)
    THEN "raised_listed"
    ELSE "raised_other"

\* the first attempt's except clause: retry after indexing, or re-raise
FirstFailure(sk, m) ==
    IF NeedsIndex(sk, m)
    THEN Goto(IF sk = "search" THEN "reindex" ELSE "check0")
    ELSE Return(Fail(CatchCode(sk, m)))

\* a variant of EmptyIsSignal: both skills check the first result for emptiness
EmptyIsSignal_Both(sk, attempt) == attempt = 1

\* a variant of EmptyIsSignal: the empty check is applied to every attempt
EmptyIsSignal_Always(sk, attempt) == sk = "scene"

\* scene_index.py raises "No results - may need indexing" on an empty shot list
\* inside the first attempt's try; search.py never does
EmptyIsSignal(sk, attempt) == sk = "scene" /\ attempt = 1

\* a variant of SecondFailure: the second attempt is handled like the first
SecondFailure_Retry(sk, m) == FirstFailure(sk, m)

\* an exception of the second (or the collection's) search call
SecondFailure(sk, m) == Return(Fail(CatchCode(sk, m)))

\* a variant of get_ready_index: a failure of the query is not taken as not ready
get_ready_index_IgnoreError(ix, q) == AnyReady(ix)

\* a variant of get_ready_index: the loop returns after the first descriptor
get_ready_index_FirstOnly(ix, q) ==
    q = "ok" /\ Len(ix) > 0 /\ IsReadyStatus(ix[1])

\* get_ready_index; q tells whether video.list_scene_index() raised
get_ready_index(ix, q) == q = "ok" /\ AnyReady(ix)

\* a variant of AfterPoll: one iteration too many
AfterPoll_OffByOne(n) ==
    IF n <= PollIterations THEN Goto("sleep") ELSE Return(Fail("INDEXING_TIMEOUT"))

\* a variant of AfterPoll: the search is retried although the index never got ready
AfterPoll_SearchAnyway(n) ==
    IF n < PollIterations THEN Goto("sleep") ELSE Goto("search2")

\* the poll loop after a readiness check that returned False
AfterPoll(n) ==
    IF n < PollIterations THEN Goto("sleep") ELSE Return(Fail("INDEXING_TIMEOUT"))

\* the backend may finish a pending index while the script sleeps
Progress(ix) ==
    {ix} \cup {[ix EXCEPT ![i] = StDone] : i \in {j \in 1..Len(ix) : ix[j] = StProcessing}}

\* statuses a freshly created index may report
NewIndexStatuses == {StProcessing}

\* control moves on along step s; a returned dictionary goes back to main, which
\* prints it and exits: print(json.dumps(result)); sys.exit(0 if ... else 1)
Take(s) ==
    IF s.to = "return"
    THEN /\ pc' = "exited"
         /\ result' = s.res
         /\ printed' = TRUE
         /\ exitCode' = ExitCode(s.res)
    ELSE /\ pc' = s.to
         /\ UNCHANGED <<result, printed, exitCode>>

\* the URLs of the model's requests and their tokens, computed once
Urls == {UrlShort, UrlWatch, UrlPlain}
TokenOf == [u \in Urls \cup {<<>>} |-> extract_youtube_id(u)]

\* the decisions above, tabulated once over the messages of the model
CatchCodes ==
    [sk \in Skills |-> [m \in Msgs \cup {MsgNoResultsLocal} |-> CatchCode(sk, m)]]
FirstFailures ==
    [sk \in Skills |-> [m \in Msgs \cup {MsgNoResultsLocal} |-> FirstFailure(sk, m)]]
SecondFailures == [sk \in Skills |-> [m \in Msgs |-> SecondFailure(sk, m)]]
IgnoredCreateErrors == {m \in Msgs : IgnoredCreateError(m)}
\* what is remembered of a failed create-index call: whether its message, in
\* lower case, holds "already"
CreateFailedAs ==
    [m \in Msgs |-> IF Contains(Lower(m), SubAlready) THEN "already" ELSE "other"]
RaisedAs == [m \in Msgs |-> Raised(m)]
TranscriptFailures == [m \in Msgs |-> TranscriptFailure(m)]

\* the outer `except Exception as e` of the skill function
Raise(m) == Take(Return(Fail(CatchCodes[skill][m])))

\* ------------------------------------------------------------------------
\* Actions
\* ------------------------------------------------------------------------
\* main: parse, check the required field, bind the keywords, validate
Main ==
    /\ pc = "start"
    /\ LET s == MainStep(skill, raw, env, args)
       IN  IF s.to = "exited"
           THEN /\ pc' = "exited"
                /\ result' = s.res
                /\ printed' = TRUE
                /\ exitCode' = 1
           ELSE IF s.to = "crashed"
           THEN /\ pc' = "crashed"
                /\ exitCode' = 1
                /\ UNCHANGED <<result, printed>>
           ELSE Take(s)
    /\ UNCHANGED <<inputVars, coll, video, idx, attemptVars, results, callVars,
                   pollVars, recovered>>

\* connect(api_key) and conn.get_collection()
Connect ==
    /\ pc = "connect"
    /\ nConnect' = nConnect + 1
    /\ \/ Take(AfterConnect(skill, args))
       \/ \E m \in Msgs : Raise(m)
    /\ UNCHANGED <<inputVars, coll, video, idx, attemptVars, results, nSearch,
                   nCreate, nUpload, nCompile, createOk, lastCreate, pollVars, recovered>>

\* get_video_from_url: collection.get_videos() and the scan for the token
GetVideos ==
    /\ pc = "scan"
    /\ \/ LET i == FirstMatch(coll, TokenOf[args.url.v])
          IN  IF i # 0
              THEN /\ video' = i
                   /\ idx' \in IndexLists
                   /\ Take(AfterResolve(skill, args))
              ELSE /\ Take(Goto("upload"))
                   /\ UNCHANGED <<video, idx>>
       \/ /\ \E m \in Msgs : Raise(m)
          /\ UNCHANGED <<video, idx>>
    /\ UNCHANGED <<inputVars, coll, attemptVars, results, callVars, pollVars,
                   recovered>>

\* upload.py: os.path.exists(file)
FileCheck ==
    /\ pc = "filecheck"
    /\ \/ Take(Goto("upload"))
       \/ Take(Return(Fail("FILE_NOT_FOUND")))
    /\ UNCHANGED <<inputVars, coll, video, idx, attemptVars, results, callVars,
                   pollVars, recovered>>

\* collection.upload(...)
Upload ==
    /\ pc = "upload"
    /\ nUpload' = nUpload + 1
    /\ \/ /\ coll' = Append(coll, Uploaded(IF Truthy(args.url) THEN args.url.v
                                           ELSE args.file.v))
          /\ video' = Len(coll) + 1
          /\ idx' = <<>>
          /\ Take(AfterResolve(skill, args))
       \/ /\ \E m \in Msgs : Raise(m)
          /\ UNCHANGED <<coll, video, idx>>
    /\ UNCHANGED <<inputVars, attemptVars, results, nConnect, nSearch, nCreate,
                   nCompile, createOk, lastCreate, pollVars, recovered>>

\* collection.get_video(video_id) and the `if not video` that follows
GetVideo ==
    /\ pc = "getvideo"
    /\ \/ IF \E i \in 1..Len(coll) : IdOf(i) = args.video_id.v
          THEN /\ video' = CHOOSE i \in 1..Len(coll) : IdOf(i) = args.video_id.v
               /\ idx' \in IndexLists
               /\ Take(AfterResolve(skill, args))
          ELSE /\ Take(Return(Fail("VIDEO_NOT_FOUND")))
               /\ UNCHANGED <<video, idx>>
       \/ /\ \E m \in Msgs : Raise(m)
          /\ UNCHANGED <<video, idx>>
    /\ UNCHANGED <<inputVars, coll, attemptVars, results, callVars, pollVars,
                   recovered>>

\* upload.py, action "list": collection.get_videos()
UploadList ==
    /\ pc = "ulist"
    /\ \/ Take(Return(Ok))
       \/ \E m \in Msgs : Raise(m)
    /\ UNCHANGED <<inputVars, coll, video, idx, attemptVars, results, callVars,
                   pollVars, recovered>>

\* transcript.py: ensure_transcript, video.get_transcript(force=force)
GetTranscript ==
    /\ pc = "transcript"
    /\ \/ Take(AfterTranscript(args))
       \/ \E m \in Msgs : Take(TranscriptFailures[m])
    /\ UNCHANGED <<inputVars, coll, video, idx, attemptVars, results, callVars,
                   pollVars, recovered>>

\* transcript.py: ensure_transcript, video.generate_transcript() and the
\* video.get_transcript() that follows
GenerateTranscript ==
    /\ pc = "generate"
    /\ \/ Take(AfterTranscript(args))
       \/ \E m \in Msgs : Raise(m)
    /\ UNCHANGED <<inputVars, coll, video, idx, attemptVars, results, callVars,
                   pollVars, recovered>>

\* transcript.py: video.get_transcript_text()
GetTranscriptText ==
    /\ pc = "text"
    /\ \/ Take(Return(Ok))
       \/ \E m \in Msgs : Raise(m)
    /\ UNCHANGED <<inputVars, coll, video, idx, attemptVars, results, callVars,
                   pollVars, recovered>>

\* search.py: ensure_indexed, before the first attempt (URL) or after its failure
EnsureIndexed ==
    /\ pc \in {"preindex", "reindex"}
    /\ nCreate' = nCreate + 1
    /\ recovered' = (recovered \/ pc = "reindex")
    /\ LET next == Goto(IF pc = "preindex" THEN "search1" ELSE "search2")
       IN  \/ /\ \E st \in NewIndexStatuses : idx' = Append(idx, st)
              /\ createOk' = TRUE
              /\ lastCreate' = "ok"
              /\ Take(next)
           \/ /\ \E m \in Msgs :
                    /\ lastCreate' = CreateFailedAs[m]
                    /\ IF m \in IgnoredCreateErrors THEN Take(next) ELSE Raise(m)
              /\ createOk' = FALSE
              /\ idx' = idx
    /\ UNCHANGED <<inputVars, coll, video, attemptVars, results, nConnect, nSearch,
                   nUpload, nCompile, pollVars>>

\* the first video.search call and its except clause
FirstSearch ==
    /\ pc = "search1"
    /\ nSearch' = nSearch + 1
    /\ \/ \E n \in 0..MaxShots :
            IF EmptyIsSignal(skill, 1) /\ n = 0
            THEN /\ first' = "empty"
                 /\ Take(FirstFailures[skill][MsgNoResultsLocal])
                 /\ results' = results
            ELSE /\ results' = n
                 /\ Take(Goto("format"))
                 /\ first' = (IF n = 0 THEN "empty" ELSE "shots")
       \/ \E m \in Msgs :
            /\ first' = RaisedAs[m]
            /\ Take(FirstFailures[skill][m])
            /\ results' = results
    /\ UNCHANGED <<inputVars, coll, video, idx, second, nConnect, nCreate,
                   nUpload, nCompile, createOk, lastCreate, pollVars, recovered>>

\* scene_index.py: ensure_scene_index's first get_ready_index()
SceneCheck ==
    /\ pc = "check0"
    /\ recovered' = TRUE
    /\ \E q \in {"ok", "raised"} :
          /\ lastQuery' = q
          /\ queryOk' = (queryOk \/ q = "ok")
          /\ IF get_ready_index(idx, q)
             THEN Take(Goto("search2")) /\ everReady' = TRUE
             ELSE Take(Goto("create")) /\ everReady' = everReady
    /\ UNCHANGED <<inputVars, coll, video, idx, attemptVars, results, callVars,
                   nPoll, nSleep, clock>>

\* scene_index.py: ensure_scene_index's video.index_scenes(...)
SceneCreate ==
    /\ pc = "create"
    /\ nCreate' = nCreate + 1
    /\ \/ /\ \E st \in NewIndexStatuses : idx' = Append(idx, st)
          /\ createOk' = TRUE
          /\ lastCreate' = "ok"
          /\ Take(AfterPoll(0))
       \/ /\ \E m \in Msgs : Raise(m) /\ lastCreate' = CreateFailedAs[m]
          /\ createOk' = FALSE
          /\ idx' = idx
    /\ UNCHANGED <<inputVars, coll, video, attemptVars, results, nConnect, nSearch,
                   nUpload, nCompile, pollVars, recovered>>

\* scene_index.py: time.sleep(10) of one poll iteration
Sleep ==
    /\ pc = "sleep"
    /\ nSleep' = nSleep + 1
    /\ clock' = clock + SleepUnits
    /\ idx' \in Progress(idx)
    /\ Take(Goto("poll"))
    /\ UNCHANGED <<inputVars, coll, video, attemptVars, results, callVars, nPoll,
                   everReady, lastQuery, queryOk, recovered>>

\* scene_index.py: get_ready_index() of one poll iteration
Poll ==
    /\ pc = "poll"
    /\ nPoll' = nPoll + 1
    /\ \E q \in {"ok", "raised"} :
          /\ lastQuery' = q
          /\ queryOk' = (queryOk \/ q = "ok")
          /\ IF get_ready_index(idx, q)
             THEN Take(Goto("search2")) /\ everReady' = TRUE
             ELSE Take(AfterPoll(nPoll + 1)) /\ everReady' = everReady
    /\ UNCHANGED <<inputVars, coll, video, idx, attemptVars, results, callVars,
                   nSleep, clock, recovered>>

\* the second video.search call; its exception goes to the outer handler
SecondSearch ==
    /\ pc = "search2"
    /\ nSearch' = nSearch + 1
    /\ \/ \E n \in 0..MaxShots :
            /\ second' = (IF n = 0 THEN "empty" ELSE "shots")
            /\ IF EmptyIsSignal(skill, 2) /\ n = 0
               THEN Raise(MsgNoResultsLocal) /\ results' = results
               ELSE results' = n /\ Take(Goto("format"))
       \/ \E m \in Msgs :
            /\ second' = RaisedAs[m]
            /\ Take(SecondFailures[skill][m])
            /\ results' = results
    /\ UNCHANGED <<inputVars, coll, video, idx, first, nConnect, nCreate,
                   nUpload, nCompile, createOk, lastCreate, pollVars, recovered>>

\* search.py, scope "collection": collection.search(...)
CollectionSearch ==
    /\ pc = "csearch"
    /\ nSearch' = nSearch + 1
    /\ \/ \E n \in 0..MaxShots : results' = n /\ Take(Goto("format"))
       \/ \E m \in Msgs : Raise(m) /\ results' = results
    /\ UNCHANGED <<inputVars, coll, video, idx, attemptVars, nConnect, nCreate,
                   nUpload, nCompile, createOk, lastCreate, pollVars, recovered>>

\* a variant of CompileNeeded: compile is called whatever the shots are
CompileNeeded_Always(n) == TRUE

\* whether results.compile() is called: `results.compile() if shots else None`
CompileNeeded(n) == n > 0

\* the shots are formatted, the stream compiled, the success dictionary returned
Format ==
    /\ pc = "format"
    /\ IF CompileNeeded(results)
       THEN /\ nCompile' = nCompile + 1
            /\ \/ Take(Return(OkShots(results, "url")))
               \/ \E m \in Msgs : Raise(m)
       ELSE /\ nCompile' = nCompile
            /\ Take(Return(OkShots(results, "null")))
    /\ UNCHANGED <<inputVars, coll, video, idx, attemptVars, results, nConnect,
                   nSearch, nCreate, nUpload, createOk, lastCreate, pollVars, recovered>>

\* scene_index.py, action "create": video.index_scenes(...)
SceneDoCreate ==
    /\ pc = "docreate"
    /\ nCreate' = nCreate + 1
    /\ \/ /\ \E st \in NewIndexStatuses : idx' = Append(idx, st)
          /\ createOk' = TRUE
          /\ lastCreate' = "ok"
          /\ Take(Return(Ok))
       \/ /\ \E m \in Msgs : Raise(m) /\ lastCreate' = CreateFailedAs[m]
          /\ createOk' = FALSE
          /\ idx' = idx
    /\ UNCHANGED <<inputVars, coll, video, attemptVars, results, nConnect, nSearch,
                   nUpload, nCompile, pollVars, recovered>>

\* scene_index.py, action "list": video.list_scene_index(), AttributeError caught
SceneDoList ==
    /\ pc = "dolist"
    /\ \/ \E how \in {"listed", "AttributeError"} : Take(Return(Ok))
       \/ \E m \in Msgs : Raise(m)
    /\ UNCHANGED <<inputVars, coll, video, idx, attemptVars, results, callVars,
                   pollVars, recovered>>

Next ==
    \/ Main
    \/ Connect
    \/ GetVideos
    \/ FileCheck
    \/ Upload
    \/ GetVideo
    \/ UploadList
    \/ EnsureIndexed
    \/ FirstSearch
    \/ SceneCheck
    \/ SceneCreate
    \/ Sleep
    \/ Poll
    \/ SecondSearch
    \/ CollectionSearch
    \/ Format
    \/ SceneDoCreate
    \/ SceneDoList
    \/ GetTranscript
    \/ GenerateTranscript
    \/ GetTranscriptText

Spec == Init /\ [][Next]_vars

Terminal == pc \in {"exited", "crashed"}

\* ------------------------------------------------------------------------
\* Properties
\* ------------------------------------------------------------------------
\* the videos the collection held before this invocation uploaded anything
PriorVideos == SubSeq(coll, 1, Len(coll) - nUpload)

\* positions of the prior videos whose name+source holds the URL's token
TokenHits ==
    {i \in 1..Len(PriorVideos) : Contains(VStr(PriorVideos[i]), TokenOf[args.url.v])}

\* the request resolves a video from a URL (search on a video, or scene index)
ResolvesUrl ==
    /\ skill \in {"search", "scene"}
    /\ Truthy(args.url)
    /\ ~(skill = "search" /\ args.scope = Str(StrCollection))

\* C1: one invocation of the search skill or of the scene-index search action
\* issues at most 2 search calls, whatever the backend answers.
C1_AtMostTwoSearches == nSearch <= 2

\* C1 witness: the second search failed with a not-indexed message as well, and
\* the request ended there.
C1_Witness ==
    pc = "exited" /\ nSearch = 2 /\ recovered /\ result.error = "NOT_INDEXED"

\* C2 as stated: no ensure-index step (ensure_indexed, ensure_scene_index) issues
\* a create-index call while the video has an index whose status contains
\* "done" or "ready".
C2_Original ==
    [][(pc \in {"preindex", "reindex", "create"} /\ nCreate' = nCreate + 1)
          => ~AnyReady(idx)]_vars

\* C2 amended: in ensure_scene_index, when the readiness query succeeds and lists
\* a ready index, the step returns Ready and no create-index call is issued;
\* ensure_indexed of the search skill asks nothing and always issues the call.
C2_Amended ==
    /\ (pc = "create" => (lastQuery = "raised" \/ ~AnyReady(idx)))
    /\ (skill = "scene" /\ recovered /\ nSleep = 0 /\ lastQuery = "ok" /\ AnyReady(idx))
          => (nCreate = 0 /\ everReady /\ pc \in {"search2", "format", "exited"})
    /\ (skill = "search" /\ recovered) => nCreate >= 1

\* C2 witness: ensure_scene_index found a ready index and went on to the second
\* search without creating one.
C2_Witness ==
    /\ skill = "scene" /\ pc = "search2" /\ recovered
    /\ lastQuery = "ok" /\ AnyReady(idx) /\ nSleep = 0 /\ nCreate = 0

\* C3 as stated: when ensure_scene_index runs and no readiness check ever returns
\* True, the request ends with the timeout outcome after exactly 30 poll
\* iterations of one 10-unit sleep and one readiness check each.
C3_Original ==
    (skill = "scene" /\ pc = "exited" /\ recovered /\ ~everReady)
        => /\ result = Fail("INDEXING_TIMEOUT")
           /\ nPoll = 30 /\ nSleep = 30 /\ clock = 300

\* C3 amended: the same, provided the create-index call of ensure_scene_index
\* returned normally; the loop never runs more than 30 iterations, and each
\* iteration is one sleep of 10 units followed by one readiness check.
C3_Amended ==
    /\ nPoll <= 30
    /\ nSleep = nPoll + (IF pc = "poll" THEN 1 ELSE 0)
    /\ clock = 10 * nSleep
    /\ (skill = "scene" /\ pc = "exited" /\ recovered /\ createOk /\ ~everReady)
          => /\ result = Fail("INDEXING_TIMEOUT")
             /\ nPoll = 30 /\ nSleep = 30 /\ clock = 300

\* C3 witness: the poll loop ran out after 30 iterations and 300 units of sleep.
C3_Witness ==
    /\ skill = "scene" /\ pc = "exited" /\ recovered /\ createOk /\ ~everReady
    /\ result.error = "INDEXING_TIMEOUT" /\ nPoll = 30 /\ clock = 300

\* C4: when the token of the request's URL is contained in name+source of a video
\* already in the collection, no upload call is issued and the video resolved is
\* the first such video in get_videos() order.
C4_FirstMatchNoUpload ==
    (ResolvesUrl /\ TokenOf[args.url.v] # NoToken /\ TokenHits # {})
        => /\ nUpload = 0
           /\ pc # "upload"
           /\ (video # 0 => video \in TokenHits /\ \A j \in TokenHits : video <= j)

\* C4 witness: two videos of the collection hold the token and the first one was
\* resolved.
C4_Witness ==
    /\ ResolvesUrl /\ TokenOf[args.url.v] # NoToken
    /\ Cardinality(TokenHits) = 2 /\ video = 1 /\ nUpload = 0 /\ pc = "exited"

\* C5 as stated: once the first search attempt has failed with a message holding
\* none of "not indexed", "no scene", "no results", the request has ended in
\* failure with no ensure-index step and no second search call.
C5_Original ==
    first = "raised_other"
        => /\ pc = "exited" /\ printed
           /\ ~result.success /\ result.error # ""
           /\ nSearch = 1 /\ ~recovered

\* C6: when recovery has reported Ready and the second search returns no shots,
\* the request ends with success true, zero results and a null compiled stream
\* URL, with no compile call and nothing further issued.
C6_EmptySecondIsDone ==
    (recovered /\ second = "empty")
        => /\ nSearch = 2
           /\ pc \in {"format", "exited"}
           /\ (pc = "exited" => /\ result = OkShots(0, "null")
                                /\ printed /\ exitCode = 0 /\ nCompile = 0)

\* C6 witness: a scene-index search whose second attempt came back empty ended
\* in success with zero results.
C6_Witness ==
    /\ skill = "scene" /\ recovered /\ second = "empty" /\ pc = "exited"
    /\ result.success /\ result.total = 0 /\ result.compiled = "null"

\* C7: when the poll budget is exhausted with the index never ready, the request
\* has ended with success false and error INDEXING_TIMEOUT, and no second search
\* call was issued; INDEXING_TIMEOUT is reported in no other way.
C7_TimeoutIsFinal ==
    /\ (nPoll = PollIterations /\ ~everReady)
          => /\ pc = "exited" /\ printed /\ exitCode = 1
             /\ result = Fail("INDEXING_TIMEOUT")
             /\ nSearch = 1 /\ second = "none"
    /\ result.error = "INDEXING_TIMEOUT"
          => (nPoll = PollIterations /\ ~everReady /\ nSearch = 1)

\* C7 witness: the request ended with INDEXING_TIMEOUT after the last poll.
C7_Witness ==
    /\ nPoll = PollIterations /\ ~everReady /\ pc = "exited"
    /\ result.error = "INDEXING_TIMEOUT" /\ ~result.success

\* C8 as stated: an output carrying NOT_INDEXED, PROCESSING or INDEXING_TIMEOUT
\* comes only after one recovery cycle.
C8_Original ==
    result.error \in {"NOT_INDEXED", "PROCESSING", "INDEXING_TIMEOUT"} => recovered

\* C8 amended: an output carrying INDEXING_TIMEOUT, or carrying NOT_INDEXED after
\* a first search attempt on the video that raised or came back empty, comes only
\* after one recovery cycle.
C8_Amended ==
    /\ result.error = "INDEXING_TIMEOUT" => recovered
    /\ (result.error = "NOT_INDEXED"
            /\ first \in {"raised_listed", "raised_other", "empty"})
          => recovered

\* C8 witness: NOT_INDEXED surfaced after the first attempt raised and one
\* recovery cycle ran.
C8_Witness ==
    /\ pc = "exited" /\ result.error = "NOT_INDEXED"
    /\ first = "raised_listed" /\ recovered

\* C9 as stated: every invocation ends by printing one JSON object with a boolean
\* success and, on failure, an error code; none ends in an uncaught exception.
C9_Original ==
    Terminal => /\ pc = "exited" /\ printed
                /\ result.success \in BOOLEAN
                /\ (~result.success => result.error # "")

\* C10: whenever a result was printed the exit code is 0 exactly if success is
\* true and 1 otherwise; the early exits of main (invalid JSON, no input, missing
\* required field) print success false and exit 1.
C10_ExitCodeMatchesSuccess ==
    /\ printed => /\ exitCode \in {0, 1}
                  /\ (exitCode = 0 <=> result.success)
    /\ (pc # "start"
          /\ \/ raw # "object"
             \/ skill = "search" /\ args.query.t = "absent"
             \/ skill = "scene" /\ args.video_id.t = "absent" /\ args.url.t = "absent")
          => /\ pc = "exited" /\ printed
             /\ ~result.success /\ exitCode = 1
             /\ nConnect = 0

\* C10 witness: an upload invocation printed success true and exited 0.
C10_Witness ==
    skill = "upload" /\ pc = "exited" /\ printed /\ result.success /\ exitCode = 0

\* a value that supplies nothing: the key is absent, null or the empty string
Unsupplied(x) == x.t \in {"absent", "null"} \/ (x.t = "str" /\ x.v = <<>>)

\* the request is a JSON object for a video-scoped operation and supplies
\* neither video_id nor url
NoVideoRef ==
    /\ raw = "object"
    /\ \/ skill = "search" /\ args.scope \in {Absent, Str(StrVideo)}
       \/ skill \in {"scene", "transcript"}
    /\ Unsupplied(args.video_id) /\ Unsupplied(args.url)

\* the checks that the code makes before it looks at video_id and url all pass
EarlierChecksPass ==
    /\ env.sdk /\ env.key
    /\ \A k \in Foreign(skill) : args[k].t = "absent"
    /\ skill = "search" => args.query.t # "absent"
    /\ skill = "scene" =>
          /\ args.action \in {Absent, Str(StrSearch), Str(StrCreate), Str(StrList)}
          /\ args.action \in {Absent, Str(StrSearch)} => ~Unsupplied(args.query)
    /\ skill = "transcript" =>
          args.format \in {Absent, Str(StrTimestamped), Str(StrText), Str(StrBoth)}

Invocations == 1..NumInvocations

\* an invocation that has entered get_video_from_url; seen is the length of the
\* list collection.get_videos() returned to it, -1 before the call
Scanning == [pc |-> "scan", seen |-> -1, hit |-> 0, video |-> 0, uploads |-> 0]

\* the URL all the invocations resolve
RaceUrl == args.url.v

raceFrame ==
    <<skill, raw, env, args, cfg, pc, video, idx, attemptVars, results, callVars,
      pollVars, recovered, result, printed, exitCode>>

InitRace ==
    /\ skill = "search"
    /\ raw = "object"
    /\ env = [sdk |-> TRUE, key |-> TRUE]
    /\ args \in {[NoArgs EXCEPT !.query = Str(ValQuery), !.url = Str(u)] : u \in Urls}
    /\ coll \in Collections
    /\ InitRun
    /\ inv = [p \in Invocations |-> Scanning]
    /\ cfg = NoConfig

\* get_video_from_url of invocation p: collection.get_videos() and the scan of
\* the list it returned
RaceScan(p) ==
    /\ inv[p].pc = "scan"
    /\ \/ LET i == FirstMatch(coll, TokenOf[RaceUrl])
          IN  inv' = [inv EXCEPT ![p] =
                        [@ EXCEPT !.seen = Len(coll), !.hit = i, !.video = i,
                                  !.pc = IF i # 0 THEN "done" ELSE "upload"]]
       \/ inv' = [inv EXCEPT ![p].pc = "failed"]
    /\ UNCHANGED <<coll, raceFrame>>

\* get_video_from_url of invocation p: collection.upload(url=video_url), reached
\* when the loop over the returned list ended without a match
RaceUpload(p) ==
    /\ inv[p].pc = "upload"
    /\ \/ /\ coll' = Append(coll, Uploaded(RaceUrl))
          /\ inv' = [inv EXCEPT ![p] =
                        [@ EXCEPT !.uploads = @ + 1, !.video = Len(coll) + 1,
                                  !.pc = "done"]]
       \/ /\ inv' = [inv EXCEPT ![p] = [@ EXCEPT !.uploads = @ + 1, !.pc = "failed"]]
          /\ coll' = coll
    /\ UNCHANGED raceFrame

NextRace ==
    \/ \E p \in Invocations : RaceScan(p)
    \/ \E p \in Invocations : RaceUpload(p)

SpecRace == InitRace /\ [][NextRace]_vars

\* positions, in the list invocation p got from get_videos(), of the videos whose
\* name+source holds the URL's token (the collection only grows at its end)
SeenHits(p) ==
    {i \in 1..inv[p].seen :
        TokenOf[RaceUrl] # NoToken /\ Contains(VStr(coll[i]), TokenOf[RaceUrl])}

\* C12: whether an invocation uploads is decided by the list its own scan saw
\* and by nothing later (no lock, no second look at the collection): it goes on
\* to upload exactly if that list held no match, and every upload that succeeds
\* adds a record of its own, so two invocations whose scans both end before
\* either upload leave two records for the same source.
C12_UploadDecidedByOwnScan ==
    /\ \A p \in Invocations :
          inv[p].seen >= 0 =>
             /\ (inv[p].pc = "upload" \/ inv[p].uploads = 1) <=> SeenHits(p) = {}
             /\ inv[p].uploads <= 1
             /\ (inv[p].pc = "done" /\ inv[p].uploads = 1) =>
                   /\ inv[p].video > inv[p].seen
                   /\ coll[inv[p].video] = Uploaded(RaceUrl)
             /\ (inv[p].pc = "done" /\ inv[p].uploads = 0) =>
                   inv[p].video \in SeenHits(p)
    /\ \A p, q \in Invocations :
          (p # q /\ inv[p].uploads = 1 /\ inv[q].uploads = 1
              /\ inv[p].pc = "done" /\ inv[q].pc = "done")
             => inv[p].video # inv[q].video

\* C12 witness: the URL has a token, both scans saw the same list before either
\* upload, both invocations uploaded, and the collection ends with two records
\* of the same source.
C12_Witness ==
    /\ TokenOf[RaceUrl] # NoToken
    /\ inv[1].pc = "done" /\ inv[2].pc = "done"
    /\ inv[1].uploads = 1 /\ inv[2].uploads = 1
    /\ inv[1].seen = inv[2].seen /\ Len(coll) = inv[1].seen + 2
    /\ inv[1].video # inv[2].video
    /\ coll[inv[1].video] = coll[inv[2].video]

\* ------------------------------------------------------------------------
\* load_env_files, run when the script is imported
\* ------------------------------------------------------------------------
\* what the candidate directories may hold
EnvFileSets ==
    {f \in [Dirs -> {NoFile} \cup {EnvFile(d, ks) : d \in Dirs, ks \in SUBSET EnvKeys}] :
        \A d \in Dirs : f[d] = NoFile \/ \E ks \in SUBSET EnvKeys : f[d] = EnvFile(d, ks)}

envFrame ==
    <<skill, raw, env, args, coll, inv, pc, video, idx, attemptVars, results,
      callVars, pollVars, recovered, result, printed, exitCode>>

InitEnv ==
    /\ skill \in EnvSkills
    /\ raw = "object"
    /\ env = [sdk |-> TRUE, key |-> TRUE]
    /\ args = NoArgs
    /\ coll = <<>>
    /\ InitRun
    /\ inv = <<>>
    /\ cfg \in {[pc |-> "load", dotenv |-> d, pos |-> 0, environ |-> e,
                 files |-> f, real |-> e] :
                   d \in BOOLEAN, e \in [EnvKeys -> {Unset, RealValue}],
                   f \in EnvFileSets}

\* `from dotenv import load_dotenv` raises ImportError: return
LoadEnvNoDotenv ==
    /\ cfg.pc = "load"
    /\ ~cfg.dotenv
    /\ cfg' = [cfg EXCEPT !.pc = "done"]
    /\ UNCHANGED envFrame

\* one turn of `for env_path in [...]`: if env_path.exists(): load_dotenv(env_path)
LoadEnvFile ==
    /\ cfg.pc = "load"
    /\ cfg.dotenv
    /\ LET cands == EnvCandidates(skill)
           file == cfg.files[cands[cfg.pos + 1]]
       IN  cfg' = [cfg EXCEPT
                     !.environ = IF file # NoFile THEN load_dotenv(@, file) ELSE @,
                     !.pos = @ + 1,
                     !.pc = IF cfg.pos + 1 = Len(cands) THEN "done" ELSE "load"]
    /\ UNCHANGED envFrame

NextEnv ==
    \/ LoadEnvNoDotenv
    \/ LoadEnvFile

SpecEnv == InitEnv /\ [][NextEnv]_vars

\* the value of key k once the files of the directories ds have been processed
\* in that order with no bound key overridden: the real environment's value,
\* else that of the first file of ds that binds k
FirstBinding(k, ds) ==
    LET binds == {i \in 1..Len(ds) :
                     cfg.files[ds[i]] # NoFile /\ cfg.files[ds[i]][k] # Unset}
    IN  IF cfg.real[k] # Unset THEN cfg.real[k]
        ELSE IF binds = {} THEN Unset
        ELSE cfg.files[ds[CHOOSE i \in binds : \A j \in binds : i <= j]][k]

\* the four directories in the order of the specification
FourDirs == <<DirSkills, DirSkill, DirScript, DirCwd>>

\* the order without the script root
ThreeDirs == <<DirSkills, DirSkill, DirCwd>>

C14_CompileIffShots ==
    /\ nCompile = (IF pc = "exited" /\ results > 0 THEN 1 ELSE 0)
    /\ (pc = "exited" /\ results = 0) =>
          (result = OkShots(0, "null") /\ printed)
    /\ (pc = "exited" /\ results > 0 /\ result.success) =>
          result = OkShots(results, "url")

\* C14 witness: a search ended with an empty shot sequence, a null compiled
\* stream URL and no compile call.
C14_Witness ==
    /\ pc = "exited" /\ results = 0 /\ nSearch >= 1
    /\ result.success /\ result.total = 0 /\ result.compiled = "null"
    /\ nCompile = 0

\* the request is a search on one video: the search skill outside collection
\* scope, or the search action of the scene-index skill
VideoSearch ==
    \/ skill = "search" /\ args.scope # Str(StrCollection)
    \/ skill = "scene" /\ args.action \in {Absent, Str(StrSearch)}

\* search.py runs ensure_indexed on a URL-based video before the first attempt
PreIndexed == skill = "search" /\ Truthy(args.url)

\* C15 as stated: after a first attempt that returned shots the request has
\* issued one search call and no create-index call and ends in Done; a
\* create-index call is only issued after a first attempt classified as needing
\* an index, for id-based and URL-based references alike.
C15_Original ==
    /\ first = "shots" =>
          /\ nSearch = 1 /\ nCreate = 0
          /\ pc = "exited" => result.success
    /\ (VideoSearch /\ nCreate > 0) =>
          (recovered /\ first \in {"raised_listed", "raised_other", "empty"})

\* C15 amended: after a first attempt that returned shots the request has issued
\* exactly one search call and runs no recovery; it ends in Done unless the
\* compile call raises. The scene-index search action and id-based requests of
\* the search skill have then issued no create-index call, while a URL-based
\* request of the search skill has issued exactly one, before the first
\* attempt. Any further create-index call follows a first attempt that was
\* classified as needing an index.
C15_Amended ==
    /\ first = "shots" =>
          /\ nSearch = 1 /\ ~recovered /\ second = "none"
          /\ pc \in {"format", "exited"}
          /\ nCreate = (IF PreIndexed THEN 1 ELSE 0)
          /\ pc = "exited" =>
                \/ result = OkShots(results, "url")
                \/ ~result.success /\ nCompile = 1
    /\ (VideoSearch /\ nCreate > (IF PreIndexed THEN 1 ELSE 0)) =>
          (recovered /\ first \in {"raised_listed", "raised_other", "empty"})

\* C15 witness: a URL-based request of the search skill whose first attempt
\* returned shots ended in Done after one search call and one create-index call.
C15_Witness ==
    /\ skill = "search" /\ PreIndexed /\ first = "shots"
    /\ pc = "exited" /\ result.success /\ result.total > 0
    /\ nSearch = 1 /\ nCreate = 1

\* C16 as stated: in both skills an empty shot set from the first attempt moves
\* the request into recovery (ensure-index, then one re-search), and an empty
\* shot set from the second attempt ends the request.
C16_Original ==
    /\ first = "empty" =>
          /\ pc # "format" \/ recovered
          /\ pc = "exited" => recovered
    /\ second = "empty" => (nSearch = 2 /\ pc \in {"format", "exited"})

\* C16 amended: in the scene-index search action an empty shot set from the
\* first attempt moves the request into recovery, followed by at most one
\* re-search; in the search skill it does not: the request ends in Done with
\* zero results after one search call and no recovery. In both, an empty shot
\* set from the second attempt ends the request in Done with zero results.
C16_Amended ==
    /\ (first = "empty" /\ skill = "scene") =>
          /\ recovered \/ pc = "check0"
          /\ nSearch <= 2
          /\ pc = "exited" => recovered
    /\ (first = "empty" /\ skill = "search") =>
          /\ ~recovered /\ nSearch = 1 /\ second = "none"
          /\ nCreate = (IF PreIndexed THEN 1 ELSE 0)
          /\ pc \in {"format", "exited"}
          /\ pc = "exited" => result = OkShots(0, "null")
    /\ second = "empty" =>
          /\ nSearch = 2 /\ recovered
          /\ pc \in {"format", "exited"}
          /\ pc = "exited" => result = OkShots(0, "null")

\* C16 witness: a scene-index search whose first attempt came back empty went
\* through recovery and ended with the shots of its second attempt.
C16_Witness ==
    /\ skill = "scene" /\ first = "empty" /\ recovered
    /\ nSearch = 2 /\ second = "shots"
    /\ pc = "exited" /\ result.success /\ result.total > 0

\* no known URL shape occurs anywhere in the URL
NoShape(url) == \A i \in 1..Len(url) : ~MatchAt(url, i)

\* C17: for a URL of no known shape, the scan of every invocation ends without
\* a match whatever the collection holds, so the invocation goes on to exactly
\* one upload call and the video it returns is the new record; N invocations
\* that return, one after the other or interleaved, leave N new records.
C17_NoTokenAlwaysUploads ==
    NoShape(RaceUrl) =>
       /\ \A p \in Invocations :
             /\ inv[p].uploads <= 1
             /\ inv[p].seen >= 0 =>
                   /\ inv[p].hit = 0
                   /\ inv[p].pc \in {"upload", "done", "failed"}
                   /\ inv[p].uploads = (IF inv[p].pc = "upload" THEN 0 ELSE 1)
             /\ inv[p].pc = "done" =>
                   /\ inv[p].video > inv[p].seen
                   /\ coll[inv[p].video] = Uploaded(RaceUrl)
       /\ (\A p \in Invocations : inv[p].pc = "done") =>
             /\ Cardinality({inv[p].video : p \in Invocations}) = NumInvocations
             /\ Cardinality({i \in 1..Len(coll) : coll[i] = Uploaded(RaceUrl)})
                   = NumInvocations

\* C17 witness: the second invocation scanned a collection that already held
\* the record the first one had uploaded from the same URL, and uploaded again.
C17_Witness ==
    /\ NoShape(RaceUrl)
    /\ inv[1].pc = "done" /\ inv[2].pc = "done"
    /\ inv[2].seen >= inv[1].video
    /\ coll[inv[1].video] = Uploaded(RaceUrl)
    /\ inv[1].uploads = 1 /\ inv[2].uploads = 1
    /\ inv[2].video > inv[1].video

\* the error codes of the credential and input validation checks
ValidationCodes ==
    {"MISSING_API_KEY", "MISSING_VIDEO_ID", "MISSING_QUERY", "MISSING_SOURCE",
     "INVALID_ACTION", "INVALID_FORMAT", "INVALID_SEARCH_TYPE", "INVALID_INDEX_TYPE"}

\* upload.py checks video_id (action info) and url/file (action upload) inside
\* its try, after connect and get_collection
CheckedAfterConnect ==
    skill = "upload" /\ result.error \in {"MISSING_VIDEO_ID", "MISSING_SOURCE"}

\* C18 as stated: a request that fails a credential or input validation check
\* has its error returned before any backend call is issued.
C18_Original ==
    result.error \in ValidationCodes =>
       /\ nConnect = 0 /\ nSearch = 0 /\ nCreate = 0 /\ nUpload = 0 /\ nCompile = 0
       /\ video = 0

\* C18 amended: such a request has issued no get_videos, get_video, upload,
\* search, index or compile call; it has issued no connect and get_collection
\* either, except in the upload skill, whose MISSING_VIDEO_ID and MISSING_SOURCE
\* are returned after one successful connect and get_collection.
C18_Amended ==
    result.error \in ValidationCodes =>
       /\ pc = "exited" /\ printed /\ ~result.success /\ exitCode = 1
       /\ nSearch = 0 /\ nCreate = 0 /\ nUpload = 0 /\ nCompile = 0
       /\ video = 0 /\ idx = <<>>
       /\ nConnect = (IF CheckedAfterConnect THEN 1 ELSE 0)

\* C18 witness: an upload request with neither url nor file got MISSING_SOURCE
\* after connecting.
C18_Witness ==
    /\ skill = "upload" /\ pc = "exited"
    /\ result.error = "MISSING_SOURCE" /\ nConnect = 1 /\ nUpload = 0

\* ensure_scene_index has run and every video.list_scene_index() of its
\* readiness checks has raised
EveryQueryRaised == skill = "scene" /\ recovered /\ ~queryOk

\* C19 as stated: when every readiness query raises, ensure_scene_index takes
\* each as not ready, issues exactly one create-index call, runs all 30 poll
\* iterations and ends in the timeout outcome, even with a ready index on the
\* video.
C19_Original ==
    EveryQueryRaised =>
       /\ ~everReady /\ pc \in {"create", "sleep", "poll", "exited"}
       /\ pc = "exited" =>
             /\ nCreate = 1 /\ nPoll = PollIterations
             /\ result = Fail("INDEXING_TIMEOUT")

\* C19 amended: when every readiness query raises, each is taken as not ready
\* and no error of a query reaches the caller; ensure_scene_index issues exactly
\* one create-index call and, if that call returns normally, runs all 30 poll
\* iterations and ends in the timeout outcome, even with a ready index on the
\* video; if the create-index call raises, its error propagates and no poll
\* iteration runs.
C19_Amended ==
    EveryQueryRaised =>
       /\ ~everReady /\ pc \in {"create", "sleep", "poll", "exited"}
       /\ nSearch = 1 /\ second = "none"
       /\ nCreate = (IF pc = "create" THEN 0 ELSE 1)
       /\ pc \in {"sleep", "poll"} => createOk
       /\ (pc = "exited" /\ createOk) =>
             /\ nPoll = PollIterations /\ nSleep = PollIterations
             /\ result = Fail("INDEXING_TIMEOUT")
       /\ (pc = "exited" /\ ~createOk) =>
             /\ nPoll = 0 /\ nSleep = 0
             /\ ~result.success
             /\ result.error \in {"NOT_INDEXED", "PROCESSING", "SCENE_INDEX_ERROR"}

\* C19 witness: the video had a ready index all along, every readiness query
\* raised, and the request ended with INDEXING_TIMEOUT after one create-index
\* call and 30 poll iterations.
C19_Witness ==
    /\ EveryQueryRaised /\ AnyReady(idx) /\ createOk
    /\ pc = "exited" /\ result.error = "INDEXING_TIMEOUT"
    /\ nCreate = 1 /\ nPoll = PollIterations

\* C20: in the search skill, a create-index failure whose message holds
\* "already" (in any case) is swallowed by ensure_indexed and the flow goes on
\* to the search call that follows; a create-index failure with any other
\* message propagates: no further search call is issued and the request ends
\* with success false.
C20_AlreadySwallowed ==
    /\ (skill = "search" /\ lastCreate = "already") =>
          /\ ~createOk
          /\ IF recovered
             THEN (pc = "search2" /\ nSearch = 1) \/ nSearch = 2
             ELSE (pc = "search1" /\ nSearch = 0) \/ nSearch >= 1
    /\ (skill = "search" /\ lastCreate = "other") =>
          /\ pc = "exited" /\ printed /\ exitCode = 1
          /\ ~result.success
          /\ result.error \in {"NOT_INDEXED", "SEARCH_ERROR"}
          /\ nSearch = (IF recovered THEN 1 ELSE 0)
          /\ second = "none"

\* C20 witness: after a failed first attempt ensure_indexed swallowed an
\* "already" failure, the second search ran and the request ended in success.
C20_Witness ==
    /\ skill = "search" /\ lastCreate = "already" /\ recovered
    /\ nSearch = 2 /\ second = "shots"
    /\ pc = "exited" /\ result.success

=============================================================================
